---- MODULE Spec2Model ----
(***************************************************************************)
(* Model of app.py, the two-party Telegram relay webhook.                  *)
(*                                                                         *)
(* The process reads its configuration from the environment at import      *)
(* time (lines 30-45), then Flask routes POST /<BOT_TOKEN> to              *)
(* webhook_handler (lines 57-149).  The handler is modelled up to each     *)
(* outbound requests.post, whose outcome (ok, non-ok, exception) is the    *)
(* environment's choice.                                                   *)
(***************************************************************************)
EXTENDS Integers, Sequences, FiniteSets

(* ------------------------------ bounds --------------------------------- *)

\* longest value of USER_A_ID / USER_B_ID in the environment
MaxLen == 2
\* sender identities in requests are 1..MaxId
MaxId == 3
\* chat identities in requests are 1..MaxChatId
MaxChatId == 2
\* message identifiers in requests are 1..MaxMsgId
MaxMsgId == 2

(* ------------------------- environment values -------------------------- *)

Digits == {"1", "2"}
Alphabet == Digits \cup {"x"}

\* the strings an identity variable can hold
Strings == UNION {[1..k -> Alphabet] : k \in 0..MaxLen}

\* os.environ.get(name): None when the variable is absent
Absent == [present |-> FALSE, val |-> <<>>]
Present(s) == [present |-> TRUE, val |-> s]

UserEnvValues == {Absent} \cup {Present(s) : s \in Strings}
TokenEnvValues == {Absent, Present(<<>>), Present(<<"x">>)}

\* Python truthiness of an os.environ.get result: None and "" are falsy
Truthy(e) == e.present /\ e.val # <<>>

DigitValue(c) == IF c = "1" THEN 1 ELSE 2

RECURSIVE DecimalValue(_)
DecimalValue(s) ==
    IF s = <<>> THEN 0
    ELSE 10 * DecimalValue(SubSeq(s, 1, Len(s) - 1)) + DigitValue(s[Len(s)])

\* int() that takes any non-empty string for a number
PyIntLenient(s) == [ok |-> s # <<>>, v |-> DecimalValue(s)]

\* int(s) for a str s: the value, or ValueError
PyInt(s) ==
    IF s # <<>> /\ \A i \in 1..Len(s) : s[i] \in Digits
    THEN [ok |-> TRUE, v |-> DecimalValue(s)]
    ELSE [ok |-> FALSE, v |-> 0]

(* ----------------------------- JSON values ----------------------------- *)

JNull == [t |-> "null", v |-> 0]
JInt(n) == [t |-> "int", v |-> n]
\* a JSON array: a Python list, which is not hashable
JList == [t |-> "list", v |-> 0]

SenderValues == {JNull, JList} \cup {JInt(n) : n \in 1..MaxId}
ChatValues == {JNull} \cup {JInt(n) : n \in 1..MaxChatId}
MessageIdValues == {JNull} \cup {JInt(n) : n \in 1..MaxMsgId}

\* Request bodies.  raw: what the bytes are; message / from / chat: the shape
\* of that key ("absent", a non-object value, or "object"); the identifiers
\* are the values .get("id") / .get("message_id") return (JNull for None).
Body(raw, message, from, sid, chat, cid, mid) ==
    [raw |-> raw, message |-> message, from |-> from, sender_id |-> sid,
     chat |-> chat, chat_id |-> cid, message_id |-> mid]

NoRequest == Body("none", "absent", "absent", JNull, "absent", JNull, JNull)

FromShapes ==
    {<<"absent", JNull>>, <<"null", JNull>>} \cup {<<"object", s>> : s \in SenderValues}
ChatShapes ==
    {<<"absent", JNull>>, <<"null", JNull>>} \cup {<<"object", c>> : c \in ChatValues}

Bodies ==
    {Body(r, "absent", "absent", JNull, "absent", JNull, JNull) :
        r \in {"unparseable", "null", "list", "object"}}
    \cup
    {Body("object", m, "absent", JNull, "absent", JNull, JNull) :
        m \in {"null", "empty", "string"}}
    \cup
    {Body("object", "object", f[1], f[2], c[1], c[2], mid) :
        f \in FromShapes, c \in ChatShapes, mid \in MessageIdValues}

Outcomes == {"ok", "not_ok", "raised"}

(* ------------------------------- state --------------------------------- *)

VARIABLE phase                \* "boot", "exited" or "serving"
VARIABLE BOT_TOKEN
VARIABLE USER_A
VARIABLE USER_B
VARIABLE USE_COPY
VARIABLE REPLY_UNAUTHORIZED
VARIABLE allowed_ids
VARIABLE pc                   \* position of the handler invocation in progress
VARIABLE request              \* the body of the request being handled
VARIABLE sender_id
VARIABLE chat_id
VARIABLE message_id
VARIABLE recipient_id
VARIABLE calls                \* requests.post calls of this invocation, in order
VARIABLE status               \* status of the Response, 0 before it exists

vars == <<phase, BOT_TOKEN, USER_A, USER_B, USE_COPY, REPLY_UNAUTHORIZED,
          allowed_ids, pc, request, sender_id, chat_id, message_id,
          recipient_id, calls, status>>

config == <<BOT_TOKEN, USER_A, USER_B, USE_COPY, REPLY_UNAUTHORIZED>>
locals == <<sender_id, chat_id, message_id, recipient_id>>

Init ==
    /\ phase = "boot"
    /\ BOT_TOKEN \in TokenEnvValues
    /\ USER_A \in UserEnvValues
    /\ USER_B \in UserEnvValues
    /\ USE_COPY \in BOOLEAN
    /\ REPLY_UNAUTHORIZED \in BOOLEAN
    /\ allowed_ids = {}
    /\ pc = "idle"
    /\ request = NoRequest
    /\ sender_id = JNull
    /\ chat_id = JNull
    /\ message_id = JNull
    /\ recipient_id = JNull
    /\ calls = <<>>
    /\ status = 0

(* ------------------------------ startup -------------------------------- *)

MissingRequired == ~Truthy(BOT_TOKEN) \/ ~Truthy(USER_A) \/ ~Truthy(USER_B)

Startup ==
    /\ phase = "boot"
    /\ IF MissingRequired
       THEN phase' = "exited" /\ UNCHANGED allowed_ids
       ELSE IF ~PyInt(USER_A.val).ok \/ ~PyInt(USER_B.val).ok
       THEN phase' = "exited" /\ UNCHANGED allowed_ids
       ELSE /\ allowed_ids' = {PyInt(USER_A.val).v, PyInt(USER_B.val).v}
            /\ phase' = "serving"
    /\ UNCHANGED <<config, pc, request, locals, calls, status>>

(* --------------------------- webhook_handler --------------------------- *)

\* get_json that never fails
ParsesAlways(body) == TRUE

\* request.get_json(force=True) succeeds
ParsesAsJSON(body) == body.raw # "unparseable"

\* the value has a .get method (it is a dict)
IsDict(shape) == shape = "object"

\* Python truthiness of payload.get("message")
MessageTruthy(body) == body.message \in {"string", "object"}

\* message.get("from", {}) / message.get("chat", {}): the default applies
\* only when the key is absent
GetOrEmptyDict(shape) == IF shape = "absent" THEN "object" ELSE shape

Hashable(x) == x.t # "list"

\* membership test that admits every integer sender
AuthorizedAnyInt(sid) == sid.t = "int"

\* sender_id in allowed_ids, for a hashable sender_id
Authorized(sid) == sid.t = "int" /\ sid.v \in allowed_ids

\* the sender left in the candidate set
RecipientsWithSender(sid) == allowed_ids

\* allowed_ids - {sender_id}
Recipients(sid) == allowed_ids \ {sid.v}

Method == IF USE_COPY THEN "copyMessage" ELSE "forwardMessage"

\* dispatch that names the sender as the source conversation
DispatchCallFromSender(outcome) ==
    [method |-> Method, chat_id |-> recipient_id, from_chat_id |-> sender_id,
     message_id |-> message_id, text |-> "none", outcome |-> outcome]

\* the copyMessage / forwardMessage call of line 126
DispatchCall(outcome) ==
    [method |-> Method, chat_id |-> recipient_id, from_chat_id |-> chat_id,
     message_id |-> message_id, text |-> "none", outcome |-> outcome]

\* a sendMessage call to the sender
SendMessageCall(text, outcome) ==
    [method |-> "sendMessage", chat_id |-> sender_id, from_chat_id |-> JNull,
     message_id |-> JNull, text |-> text, outcome |-> outcome]

\* no notice after a non-ok response
PcAfterDispatchNoFailureNotice(outcome) ==
    IF outcome = "raised" THEN "internal_error" ELSE "respond"

\* no notice after an exception
PcAfterDispatchNoErrorNotice(outcome) ==
    IF outcome = "not_ok" THEN "delivery_failed" ELSE "respond"

\* resp.ok not consulted: a notice after every response
PcAfterDispatchAlwaysNotice(outcome) ==
    IF outcome = "raised" THEN "internal_error" ELSE "delivery_failed"

\* where control goes after requests.post of line 126 and resp.ok of line 127
PcAfterDispatch(outcome) ==
    IF outcome = "raised" THEN "internal_error"
    ELSE IF outcome = "not_ok" THEN "delivery_failed"
    ELSE "respond"

\* return Response(status=s) before any local beyond those given is bound
Return(s) == pc' = "respond" /\ status' = s

\* an exception no handler catches: Flask answers 500
Uncaught == Return(500)

\* lines 58-107: parse, extract, authorize, resolve the recipient
webhook_handler ==
    /\ phase = "serving"
    /\ pc = "idle"
    /\ \E body \in Bodies :
        /\ request' = body
        /\ UNCHANGED <<phase, config, allowed_ids, calls>>
        /\ IF ~ParsesAsJSON(body)
           THEN Return(400) /\ UNCHANGED locals
           ELSE IF ~IsDict(body.raw)
           THEN Uncaught /\ UNCHANGED locals
           ELSE IF ~MessageTruthy(body)
           THEN Return(200) /\ UNCHANGED locals
           ELSE IF ~IsDict(body.message) \/ ~IsDict(GetOrEmptyDict(body.from))
           THEN Uncaught /\ UNCHANGED locals
           ELSE IF ~IsDict(GetOrEmptyDict(body.chat))
           THEN Uncaught /\ sender_id' = body.sender_id
                /\ UNCHANGED <<chat_id, message_id, recipient_id>>
           ELSE
             /\ sender_id' = body.sender_id
             /\ chat_id' = body.chat_id
             /\ message_id' = body.message_id
             /\ IF body.sender_id = JNull \/ body.message_id = JNull
                   \/ body.chat_id = JNull
                THEN Return(200) /\ UNCHANGED recipient_id
                ELSE IF ~Hashable(body.sender_id)
                THEN Uncaught /\ UNCHANGED recipient_id
                ELSE IF ~Authorized(body.sender_id)
                THEN /\ UNCHANGED recipient_id
                     /\ IF REPLY_UNAUTHORIZED
                        THEN pc' = "reply_unauthorized" /\ UNCHANGED status
                        ELSE Return(200)
                ELSE IF Recipients(body.sender_id) = {}
                THEN Return(200) /\ UNCHANGED recipient_id
                ELSE \E r \in Recipients(body.sender_id) :
                        /\ recipient_id' = JInt(r)
                        /\ IF JInt(r) = body.sender_id
                           THEN Return(200)
                           ELSE pc' = "dispatch" /\ UNCHANGED status

\* lines 89-96: the notice to an unauthorized sender, its failure swallowed
reply_unauthorized ==
    /\ pc = "reply_unauthorized"
    /\ \E outcome \in Outcomes :
        calls' = Append(calls, SendMessageCall("not_authorized", outcome))
    /\ Return(200)
    /\ UNCHANGED <<phase, config, allowed_ids, request, locals>>

\* lines 110-128: the copy / forward call
dispatch ==
    /\ pc = "dispatch"
    /\ \E outcome \in Outcomes :
        /\ calls' = Append(calls, DispatchCall(outcome))
        /\ pc' = PcAfterDispatch(outcome)
        /\ status' = IF PcAfterDispatch(outcome) = "respond" THEN 200 ELSE status
    /\ UNCHANGED <<phase, config, allowed_ids, request, locals>>

\* lines 129-136: the notice after a non-ok response, its failure swallowed
notify_delivery_failed ==
    /\ pc = "delivery_failed"
    /\ \E outcome \in Outcomes :
        calls' = Append(calls, SendMessageCall("delivery_failed", outcome))
    /\ Return(200)
    /\ UNCHANGED <<phase, config, allowed_ids, request, locals>>

\* lines 139-147: the notice after an exception, its failure swallowed
notify_internal_error ==
    /\ pc = "internal_error"
    /\ \E outcome \in Outcomes :
        calls' = Append(calls, SendMessageCall("internal_error", outcome))
    /\ Return(200)
    /\ UNCHANGED <<phase, config, allowed_ids, request, locals>>

\* the Response reaches the client and the request's objects are discarded
send_response ==
    /\ pc = "respond"
    /\ pc' = "idle"
    /\ request' = NoRequest
    /\ sender_id' = JNull
    /\ chat_id' = JNull
    /\ message_id' = JNull
    /\ recipient_id' = JNull
    /\ calls' = <<>>
    /\ status' = 0
    /\ UNCHANGED <<phase, config, allowed_ids>>

Next ==
    \/ Startup
    \/ webhook_handler
    \/ reply_unauthorized
    \/ dispatch
    \/ notify_delivery_failed
    \/ notify_internal_error
    \/ send_response

Spec == Init /\ [][Next]_vars

TypeOK ==
    /\ phase \in {"boot", "exited", "serving"}
    /\ pc \in {"idle", "reply_unauthorized", "dispatch", "delivery_failed",
               "internal_error", "respond"}
    /\ status \in {0, 200, 400, 500}
    /\ request \in Bodies \cup {NoRequest}

(* ------------------------- vocabulary of the claims -------------------- *)

Responded == pc = "respond"

IsDispatch(c) == c.method \in {"copyMessage", "forwardMessage"}
IsNotice(c) == c.method = "sendMessage"

DispatchCount == Cardinality({i \in 1..Len(calls) : IsDispatch(calls[i])})

\* the payload is an object whose message is an object
HasMessage(b) == b.raw = "object" /\ b.message = "object"

\* every key the message carries has the type section 6 gives it
WellTyped(b) ==
    /\ HasMessage(b)
    /\ b.from \in {"absent", "object"}
    /\ b.chat \in {"absent", "object"}
    /\ b.sender_id.t \in {"null", "int"}

\* message.from.id is an integer
IntFromId(b) == HasMessage(b) /\ b.from = "object" /\ b.sender_id.t = "int"

HasChatId(b) == HasMessage(b) /\ b.chat = "object" /\ b.chat_id.t # "null"
HasMessageId(b) == HasMessage(b) /\ b.message_id.t # "null"

FromUnauthorized(b) == IntFromId(b) /\ b.sender_id.v \notin allowed_ids
FromAuthorized(b) == IntFromId(b) /\ b.sender_id.v \in allowed_ids

\* a sendMessage addressed to the sender of the request
NoticeToSender(c) == IsNotice(c) /\ c.chat_id = request.sender_id

(* -------------------------------- C1 ----------------------------------- *)

UnauthorizedOutcome ==
    /\ status = 200
    /\ DispatchCount = 0
    /\ IF REPLY_UNAUTHORIZED
       THEN Len(calls) = 1 /\ NoticeToSender(calls[1])
       ELSE calls = <<>>

\* C1 as stated: every payload whose from.id is outside the allowed set is
\* answered 200 with no copy/forward, exactly one sendMessage to the sender
\* when REPLY_UNAUTHORIZED is set and no outbound call otherwise.
C1_AsStated ==
    (Responded /\ WellTyped(request) /\ FromUnauthorized(request))
        => UnauthorizedOutcome

\* C1 amended: the same outcome, for payloads whose message carries a
\* message_id, a chat.id and an integer from.id outside the allowed set.
\* No state of such a request holds a copy/forward call.
C1_Unauthorized ==
    (FromUnauthorized(request) /\ HasChatId(request) /\ HasMessageId(request))
        => /\ DispatchCount = 0
           /\ Responded => UnauthorizedOutcome

C1_Witness ==
    /\ Responded
    /\ FromUnauthorized(request) /\ HasChatId(request) /\ HasMessageId(request)
    /\ REPLY_UNAUTHORIZED
    /\ Len(calls) = 1
    /\ calls[1].outcome = "raised"

(* -------------------------------- C2 ----------------------------------- *)

\* C2: for a message from an authorized identity, with the two configured
\* identities distinct, the recipient resolved is the other identity; and
\* every copy/forward call targets a member of the allowed set that is not
\* the sender.
C2_RecipientIsOther ==
    /\ \A i \in 1..Len(calls) : IsDispatch(calls[i]) =>
          /\ calls[i].chat_id.t = "int"
          /\ calls[i].chat_id.v \in allowed_ids
          /\ calls[i].chat_id # request.sender_id
    /\ (/\ Responded
        /\ FromAuthorized(request) /\ HasChatId(request) /\ HasMessageId(request)
        /\ Cardinality(allowed_ids) = 2)
          => /\ recipient_id.t = "int"
             /\ allowed_ids = {request.sender_id.v, recipient_id.v}
             /\ recipient_id # request.sender_id

C2_Witness ==
    /\ Responded
    /\ Cardinality(allowed_ids) = 2
    /\ FromAuthorized(request)
    /\ Len(calls) = 1 /\ IsDispatch(calls[1])
    /\ calls[1].chat_id.v \in allowed_ids \ {request.sender_id.v}

(* -------------------------------- C3 ----------------------------------- *)

ExpectedDispatch(c) ==
    /\ c.method = (IF USE_COPY THEN "copyMessage" ELSE "forwardMessage")
    /\ c.chat_id.t = "int"
    /\ c.chat_id.v \in allowed_ids \ {request.sender_id.v}
    /\ c.from_chat_id = request.chat_id
    /\ c.message_id = request.message_id

OneExpectedDispatch ==
    /\ DispatchCount = 1
    /\ Len(calls) >= 1
    /\ ExpectedDispatch(calls[1])

C4_AlwaysOk ==
    (Responded /\ request.raw # "unparseable") => status = 200

(* -------------------------------- C5 ----------------------------------- *)

\* C5: after a dispatch that returned non-success the response is 200, the
\* dispatch is the only one, and exactly one sendMessage to the sender
\* follows it, whatever that sendMessage's own outcome.
C5_DeliveryFailed ==
    (/\ Responded
     /\ Len(calls) >= 1 /\ IsDispatch(calls[1]) /\ calls[1].outcome = "not_ok")
        => /\ status = 200
           /\ DispatchCount = 1
           /\ Len(calls) = 2
           /\ NoticeToSender(calls[2])
           /\ calls[2].text = "delivery_failed"

C5_Witness ==
    /\ Responded
    /\ status = 200
    /\ Len(calls) = 2
    /\ calls[1].outcome = "not_ok"
    /\ calls[2].outcome = "raised"

(* -------------------------------- C6 ----------------------------------- *)

\* C6: after a dispatch that raised the response is 200 and exactly one
\* sendMessage internal-error notice to the sender follows it, whatever
\* that sendMessage's own outcome.
C6_InternalError ==
    (/\ Responded
     /\ Len(calls) >= 1 /\ IsDispatch(calls[1]) /\ calls[1].outcome = "raised")
        => /\ status = 200
           /\ DispatchCount = 1
           /\ Len(calls) = 2
           /\ NoticeToSender(calls[2])
           /\ calls[2].text = "internal_error"

C6_Witness ==
    /\ Responded
    /\ status = 200
    /\ Len(calls) = 2
    /\ calls[1].outcome = "raised"
    /\ calls[2].outcome = "raised"

(* -------------------------------- C7 ----------------------------------- *)

NoMessageField(b) == b.raw = "object" /\ b.message = "absent"

LacksField(b) ==
    /\ HasMessage(b)
    /\ \/ b.from # "object" \/ b.sender_id.t = "null"
       \/ b.chat # "object" \/ b.chat_id.t = "null"
       \/ b.message_id.t = "null"

\* C7: a payload without a message field, or whose message lacks from.id,
\* chat.id or message_id, is answered 200 with no outbound call.
C7_Ignored ==
    (Responded /\ (NoMessageField(request) \/ LacksField(request)))
        => status = 200 /\ calls = <<>>

(* -------------------------------- C8 ----------------------------------- *)

\* C8: an unparseable body is answered 400 with no outbound call.
C8_BadJson ==
    (pc # "idle" /\ request.raw = "unparseable")
        => Responded /\ status = 400 /\ calls = <<>>

C8_Witness == Responded /\ request.raw = "unparseable" /\ status = 400

(* -------------------------------- C9 ----------------------------------- *)

IsIntegerString(e) ==
    e.present /\ Len(e.val) >= 1 /\ \A i \in 1..Len(e.val) : e.val[i] \in {"1", "2"}

Serving == phase = "serving"

C10_CallBudget ==
    /\ Len(calls) <= 2
    /\ DispatchCount <= 1
    /\ \A i, j \in 1..Len(calls) :
          ~(IsDispatch(calls[i]) /\ calls[j].text = "not_authorized")
    /\ Len(calls) = 2 =>
          /\ IsDispatch(calls[1])
          /\ calls[1].outcome \in {"not_ok", "raised"}
          /\ NoticeToSender(calls[2])
    /\ \A i \in 1..Len(calls) :
          (IsDispatch(calls[i]) /\ calls[i].outcome = "ok") => Len(calls) = 1

C10_Witness ==
    /\ Responded
    /\ Len(calls) = 2
    /\ IsDispatch(calls[1])
    /\ IsNotice(calls[2])

====
